---------------------------- MODULE Spec2Model ----------------------------
(***************************************************************************)
(* The session/streaming bridge of chatgpt_wrapper/chatgpt.py (ChatGPT):   *)
(* the in-page streaming driver injected by ask_stream, the host-side      *)
(* polling loop of ask_stream, and the conversation/REST operations.       *)
(*                                                                         *)
(* Text is a sequence of characters.  A server event is the line           *)
(* "data: " + payload followed by a blank line; a payload stands for one   *)
(* JSON text and is written as two characters (its opening and closing     *)
(* half), so that a delivery can end inside a prefix, inside a payload,    *)
(* inside a separator or on an event boundary.                             *)
(***************************************************************************)
EXTENDS Integers, Sequences, FiniteSets, TLC

(***************************************************************************)
(* Bounds of the model.                                                    *)
(***************************************************************************)
\* ask_stream calls made on one bridge
MaxCalls == 2
\* the chunk counter saturates here
MaxChunks == 2
\* calls of the other public operations (new_conversation, switch_to_conversation,
\* get_history, delete_conversation, refresh_session) made on one bridge
MaxOps == 1
\* times the caller leaves a generator it keeps suspended at a yield for another
\* call on the bridge (another public method, another ask_stream, another generator)
MaxTurns == 1

(***************************************************************************)
(* Fixed strings of the source.                                            *)
(***************************************************************************)
None == "None"
UnusableMessage == "Your ChatGPT session is not usable."
FailedMessage == "Failed to read response from ChatGPT."
FallbackMessage == "Unusable response produced, maybe login session expired."
stream_div_id == "chatgpt-wrapper-conversation-stream-data"
eof_div_id == "chatgpt-wrapper-conversation-stream-data-eof"

\* str(uuid.uuid4()): the n-th identifier drawn by this process
uuid4(n) == <<"u1", "u2", "u3", "u4", "u5", "u6", "u7", "u8", "u9", "u10">>[n]

(***************************************************************************)
(* The events a response can carry.  kind says what json.loads and the     *)
(* field accesses of ask_stream make of the payload:                       *)
(*   frame    message.id, conversation_id and message.content.parts        *)
(*   null     the JSON literal null                                        *)
(*   nomsg    "message" is null (an error event)                           *)
(*   noconv   message.id present, conversation_id missing                  *)
(*   noparts  message.id and conversation_id present, content.parts missing*)
(*   latin1   valid JSON text holding a character of U+0080..U+00FF        *)
(*   wide     a frame whose text holds a character above U+00FF            *)
(***************************************************************************)
Events == <<
  [kind |-> "frame",   id |-> "m1", conv |-> "c1", parts |-> << <<"H">> >>,        open |-> "{1", close |-> "1}"],
  [kind |-> "frame",   id |-> "m1", conv |-> "c1", parts |-> << <<"H", "i">> >>,   open |-> "{2", close |-> "2}"],
  [kind |-> "frame",   id |-> "m2", conv |-> "c2", parts |-> << <<"H">>, <<"i">> >>, open |-> "{3", close |-> "3}"],
  [kind |-> "frame",   id |-> "m2", conv |-> "c2", parts |-> << <<"B">> >>,        open |-> "{4", close |-> "4}"],
  [kind |-> "frame",   id |-> "m2", conv |-> "c2", parts |-> << >>,                open |-> "{5", close |-> "5}"],
  [kind |-> "null",    id |-> "",   conv |-> "",   parts |-> << >>,                open |-> "nu", close |-> "ll"],
  [kind |-> "nomsg",   id |-> "",   conv |-> "c2", parts |-> << >>,                open |-> "{7", close |-> "7}"],
  [kind |-> "noconv",  id |-> "m3", conv |-> "",   parts |-> << >>,                open |-> "{8", close |-> "8}"],
  [kind |-> "noparts", id |-> "m3", conv |-> "c2", parts |-> << >>,                open |-> "{9", close |-> "9}"],
  [kind |-> "latin1",  id |-> "m3", conv |-> "c2", parts |-> << <<"H">> >>,        open |-> "{e", close |-> "e}"],
  [kind |-> "wide",    id |-> "m3", conv |-> "c2", parts |-> << <<"W">> >>,        open |-> "{w", close |-> "w}"] >>

EventIds == 1..Len(Events)
\* the event "data: [DONE]" ends a response
DONE == 0

Payload(k) == IF k = DONE THEN <<"[DO", "NE]">> ELSE <<Events[k].open, Events[k].close>>
DataPrefix == <<"d", "a", "t", "a", ":", " ">>
EventSeparator == <<"\n", "\n">>
EventText(k) == DataPrefix \o Payload(k) \o EventSeparator

RECURSIVE ResponseText(_)
\* the body of a response that carries the events ks, in order
ResponseText(ks) == IF ks = <<>> THEN <<>> ELSE EventText(Head(ks)) \o ResponseText(Tail(ks))

(***************************************************************************)
(* String operations of the injected script (JavaScript).                  *)
(***************************************************************************)
\* s.substr(n) and s.substring(n): the characters after the first n
substr(s, n) == IF n >= Len(s) THEN <<>> ELSE SubSeq(s, n + 1, Len(s))

RECURSIVE split(_)
\* s.split(/\n\n/)
split(s) ==
  LET hits == {i \in 1..(Len(s) - 1) : s[i] = "\n" /\ s[i + 1] = "\n"}
  IN  IF hits = {} THEN <<s>>
      ELSE LET i == CHOOSE h \in hits : \A g \in hits : h <= g
           IN  <<SubSeq(s, 1, i - 1)>> \o split(substr(s, i + 1))

RECURSIVE reverse(_)
reverse(a) == IF a = <<>> THEN <<>> ELSE reverse(Tail(a)) \o <<Head(a)>>

\* a.shift() on an array: the array without its first element
shift(a) == IF a = <<>> THEN <<>> ELSE Tail(a)

JsonWhitespace == {" ", "\n"}
RECURSIVE TrimLeft(_)
TrimLeft(s) == IF s # <<>> /\ Head(s) \in JsonWhitespace THEN TrimLeft(Tail(s)) ELSE s
Trim(s) == reverse(TrimLeft(reverse(TrimLeft(s))))

\* JSON.parse(s) returns (does not throw): s is one whole JSON text
JSON_parse_ok(s) == \E k \in EventIds : Trim(s) = Payload(k)

\* the characters above U+007F of the payloads, and their Latin-1 bytes
Latin1Byte(c) == IF c = "{e" THEN "{xE9" ELSE IF c = "e}" THEN "xE9}" ELSE c
HighBytes == {"{xE9", "xE9}"}

RECURSIVE Quanta(_)
\* base64 encodes three bytes at a time; the last quantum is padded
Quanta(bytes) == IF bytes = <<>> THEN <<>>
                 ELSE IF Len(bytes) <= 3 THEN <<bytes>>
                 ELSE <<SubSeq(bytes, 1, 3)>> \o Quanta(substr(bytes, 3))

\* the characters above U+00FF of the payloads
WideChars == {"{w", "w}"}
\* what btoa throws for a text with a character above U+00FF
InvalidCharacterError == << <<"InvalidCharacterError">> >>

\* btoa(s): the base64 text of the Latin-1 bytes of s; it throws when s holds a
\* character that is not one byte of Latin-1
btoa(s) ==
  IF \E i \in 1..Len(s) : s[i] \in WideChars THEN InvalidCharacterError
  ELSE Quanta([i \in 1..Len(s) |-> Latin1Byte(s[i])])

(***************************************************************************)
(* Decoding on the host (Python).                                          *)
(***************************************************************************)
RECURSIVE b64decode(_)
\* base64.b64decode(html): the bytes of every quantum, in order
b64decode(html) == IF html = <<>> THEN <<>> ELSE Head(html) \o b64decode(Tail(html))

\* json.loads(bytes) raises: the bytes are not UTF-8 or not one JSON text
json_loads_raises(bytes) ==
  \/ \E i \in 1..Len(bytes) : bytes[i] \in HighBytes
  \/ ~ \E k \in EventIds : Trim(bytes) = Payload(k)

\* json.loads(bytes), when it does not raise
json_loads(bytes) == CHOOSE k \in EventIds : Trim(bytes) = Payload(k)

RECURSIVE join(_)
\* "\n".join(parts)
join(parts) == IF parts = <<>> THEN <<>>
               ELSE IF Len(parts) = 1 THEN parts[1]
               ELSE parts[1] \o <<"\n">> \o join(Tail(parts))


(***************************************************************************)
(* The responses the conversation endpoint can give (the events of the     *)
(* body, in order), and the answers of the other endpoints.                *)
(***************************************************************************)
Responses == <<
  <<1, 2, DONE>>,
  <<1, 4, DONE>>,
  <<3, 5>>,
  <<1, 7>>,
  <<6, 8>>,
  <<1, 6>>,
  <<1, 11>>,
  <<9>>,
  <<10>>,
  << >> >>

ResponseIds == 1..Len(Responses)
Body(resp) == ResponseText(Responses[resp])
\* the responses drawn in the runs with several calls: two frames and [DONE], and a
\* null followed by a payload without conversation_id
ThreadResponses == {1, 5}

session_div_id == "chatgpt-wrapper-session-data"
\* what self.session can be, by what the code does with it:
\*   empty        {} (as constructed, or not logged in): falsy, no accessToken
\*   null         None: falsy, and `"accessToken" in` raises
\*   no_token     a mapping without accessToken
\*   token        a mapping with the accessToken string
\*   null_token   {"accessToken": null}: the key is there, its value is no string
\*   not_mapping  true, a number, a list: truthy, and no mapping
Sessions == {"empty", "null", "no_token", "token", "null_token", "not_mapping"}
\* what GET /api/auth/session can answer: a status other than 200, status 200 with a
\* body that is not JSON, or status 200 with the JSON text of one of the Sessions
SessionAnswers == {"not_200", "not_json"} \cup Sessions
\* what GET /backend-api/conversation/{id} can answer: a status other than 200,
\* status 200 with a body that is not JSON, or status 200 with the conversation
\* info, with an object that has no current_node, with the empty object
InfoAnswers == {"not_200", "not_json", "info", "no_current_node", "empty_info"}
\* what a REST call (page.request.get/post/patch) can answer
RestAnswers == {"ok_json", "ok_not_json", "not_ok"}
ConversationIds == {"c1", "c2"}
\* current_node of the conversation info the server reports
current_node(conversation) == IF conversation = "c1" THEN "n1" ELSE "n2"

\* the generators ask_stream returns, in the order of the calls; the request of the
\* script injected by generator g is request g
Gens == 1..MaxCalls

VARIABLES
  session,                 \* self.session
  conversation_id,         \* self.conversation_id
  parent_message_id,       \* self.parent_message_id
  conversation_title_set,  \* self.conversation_title_set
  uuids,                   \* uuid.uuid4() calls made so far
  dom,                     \* the injected nodes of the page, in document order
  xhr,                     \* per ask_stream request: the request of the injected script
  eof_created,             \* per request: its script has created its eof node
  gen,                     \* per ask_stream call: its generator (see Unborn)
  calls,                   \* ask_stream calls started
  ops,                     \* calls of the other public operations made
  turns,                   \* times the caller left a generator it keeps for another call
  last_op,                 \* the public operation the caller made last, how it ended, and
                           \* the generator it was made on (0: none)
  host,                    \* the public call that waits for the page between two of its
                           \* round trips (see Idle)
  title_requests           \* the gen_title POSTs made on this bridge: how each ended

bridge == <<session, conversation_id, parent_message_id, conversation_title_set, uuids>>
browser == <<dom, xhr, eof_created>>
counters == <<calls, ops, turns>>
vars == <<bridge, browser, gen, counters, last_op, host, title_requests>>

\* a request not yet made by the script
NoRequest == [conversation_id |-> None, parent_message_id |-> None, id |-> None]
Unsent == [state |-> "unsent", request |-> NoRequest, resp |-> 0, len |-> 0, seenBytes |-> 0,
           html |-> <<>>]

\* no public call is between two of its page round trips.  Of a call that is:
\*   op      the method
\*   at      the round trip it waits for:
\*             session_node  refresh_session has injected its script and polls for
\*                           the session node
\*             session_set   refresh_session has assigned self.session and is to
\*                           remove the node
\*             inject        ask_stream is to evaluate the script of its request
\*             info          get_conversation_info polls for its node
\*             rest          the REST request is to be made
\*   text    what the first session node of the document holds
\*   id      the conversation the call is about
\*   gen     the generator the call runs in (0: none)
\*   before  conversation_id and parent_message_id when the call was made
Idle == [op |-> "none", at |-> "idle", text |-> "none", id |-> None, gen |-> 0,
         before |-> <<None, None>>]

\* the generator of a call not yet made.  pc is where the generator stands:
\*   starting              it runs: in the refresh_session of its first next(), or
\*                         before the evaluate() of its script (see host)
\*   poll, read            it runs: at the top of the loop, after the eof query
\*   cleanup, cleanup_eof, set_title   it runs, after the loop: before the removal
\*                         of the data node, of the eof node, before the gen_title POST
\*   unusable, chunk, failed   suspended at the yield of that message
\*   returned, raised, closed, hung   it has ended so, or polls for ever in
\*                         refresh_session
\*   over                  it has ended and the caller has gone on
\* last_event_msg, eof_seen (len(eof_datas) > 0 as sampled on this tick) and
\* timed_out ((time.time() - start_time) > self.timeout, were it read now) are the
\* locals of the generator; response and nchunks are what it has yielded so far;
\* exit (why its loop ended), last_frame (the last frame it decoded), prefix_ok
\* (every frame it decoded extended the one before), title_calls (its _set_title
\* invocations) and alone (the caller made no other call on the bridge while this
\* generator was alive) are its history.
Unborn == [pc |-> "unborn", last_event_msg |-> <<>>, eof_seen |-> FALSE, timed_out |-> FALSE,
           response |-> <<>>, nchunks |-> 0, exit |-> "none", last_frame |-> 0,
           prefix_ok |-> TRUE, title_calls |-> 0, alone |-> TRUE]
Over == [Unborn EXCEPT !.pc = "over"]

Init ==
  /\ session = "empty"
  /\ conversation_id = None
  /\ parent_message_id = uuid4(1)
  /\ conversation_title_set = FALSE
  /\ uuids = 1
  /\ dom = <<>>
  /\ xhr = [r \in Gens |-> Unsent]
  /\ eof_created = [r \in Gens |-> FALSE]
  /\ gen = [g \in Gens |-> Unborn]
  /\ calls = 0
  /\ ops = 0
  /\ turns = 0
  /\ last_op = [op |-> "init", result |-> "returned", gen |-> 0]
  /\ host = Idle
  /\ title_requests = <<>>

(***************************************************************************)
(* The page: query_selector_all and getElementById(...).remove().          *)
(***************************************************************************)
\* page.query_selector_all("div#" + id): the nodes with that id, in document order
query_selector_all(id) == SelectSeq(dom, LAMBDA n : n.id = id)

RECURSIVE RemoveFirst(_, _)
\* the document without its first node of that id
RemoveFirst(nodes, id) ==
  IF nodes = <<>> THEN <<>>
  ELSE IF Head(nodes).id = id THEN Tail(nodes)
  ELSE <<Head(nodes)>> \o RemoveFirst(Tail(nodes), id)

\* one more chunk yielded
Counted(n) == IF n >= MaxChunks THEN n ELSE n + 1
(***************************************************************************)
(* The injected script: xhr.onreadystatechange.                            *)
(***************************************************************************)
\* newEvent left undefined
Undefined == <<"undefined">>

\* the event the handler takes from newData, or undefined
newEvent(newData) ==
  LET all == shift(reverse(split(newData)))
      newEvents == IF all # <<>> /\ Head(all) = DataPrefix \o Payload(DONE)
                   THEN shift(all) ELSE all
  IN  IF newEvents = <<>> THEN Undefined
      ELSE LET e == substr(Head(newEvents), 6)
           IN  IF JSON_parse_ok(e) THEN e ELSE Undefined

\* (mutant) the handler moves seenBytes and writes the data node at every change
onreadystatechange_always_writes(x, received, readyState) ==
  LET newData == substr(SubSeq(Body(x.resp), 1, received), x.seenBytes)
      e == newEvent(newData)
  IN  [x EXCEPT !.len = received,
                !.state = IF readyState = 4 THEN "done" ELSE "loading",
                !.html = IF e # Undefined THEN btoa(e) ELSE <<>>,
                !.seenBytes = received]

\* the handler does not run to its end: btoa(newEvent), which is not inside the
\* try, throws
handler_throws(x, received) ==
  LET newData == substr(SubSeq(Body(x.resp), 1, received), x.seenBytes)
      e == newEvent(newData)
  IN  e # Undefined /\ btoa(e) = InvalidCharacterError

\* the handler at readyState 3 or 4, with `received` characters of the body there:
\* what it leaves in stream_div.innerHTML and xhr.seenBytes
onreadystatechange(x, received, readyState) ==
  LET newData == substr(SubSeq(Body(x.resp), 1, received), x.seenBytes)
      e == newEvent(newData)
      written == e # Undefined /\ btoa(e) # InvalidCharacterError
  IN  [x EXCEPT !.len = received,
                !.state = IF readyState = 4 THEN "done" ELSE "loading",
                !.html = IF written THEN btoa(e) ELSE @,
                !.seenBytes = IF written THEN received ELSE @]

\* where a delivery can end within an event: inside the prefix, inside the payload,
\* inside the separator, on the boundary
CutOffsets == {3, 7, 9, 0}
\* deliveries that end with a whole event
Boundary == {0}
Deliveries(body, offsets) == {n \in 1..Len(body) : n % Len(EventText(DONE)) \in offsets}

\* the last event of a response, "data: [DONE]" apart (0: there is none)
LastEvent(resp) ==
  LET events == SelectSeq(Responses[resp], LAMBDA k : k # DONE)
  IN  IF events = <<>> THEN 0 ELSE events[Len(events)]

\* the data node of request r is in the document
Attached(r, document) ==
  \E i \in 1..Len(document) : document[i].req = r /\ document[i].id = stream_div_id

\* What of a script can no longer be observed is dropped from its record.  Once its
\* data node has left the document its content is read by nobody, and the script
\* can only still create its eof node, which it does unless btoa throws in its last
\* handler: that can only be when the last event of the response holds a character
\* above U+00FF.  For every other response that is answering, the record is
\* "detached": the request that will end with its eof node created.
Collected(x, document) ==
  [r \in DOMAIN x |->
     IF x[r].state # "loading" \/ Attached(r, document) THEN x[r]
     ELSE IF LastEvent(x[r].resp) # 0 /\ Events[LastEvent(x[r].resp)].kind = "wide"
     THEN [x[r] EXCEPT !.html = <<>>]
     ELSE [Unsent EXCEPT !.state = "detached"]]

\* the server has received the request and starts to answer (readyState 2)
XhrHeaders(r, resps) ==
  /\ xhr[r].state = "sent"
  /\ \E resp \in resps :
       xhr' = Collected([xhr EXCEPT ![r] = [@ EXCEPT !.state = "loading",
                                                     !.request = NoRequest,
                                                     !.resp = resp]], dom)
  /\ UNCHANGED <<bridge, dom, eof_created, gen, counters, last_op, host, title_requests>>

\* more of the body has arrived (readyState 3)
XhrLoading(r, offsets) ==
  /\ xhr[r].state = "loading"
  /\ \E received \in Deliveries(Body(xhr[r].resp), offsets) :
       /\ received > xhr[r].len
       /\ xhr' = Collected([xhr EXCEPT ![r] = onreadystatechange(xhr[r], received, 3)], dom)
  /\ UNCHANGED <<bridge, dom, eof_created, gen, counters, last_op, host, title_requests>>

\* (mutant) the handler runs once more after the request has ended
XhrDone_again(r) ==
  /\ xhr[r].state \in {"loading", "detached", "done"}
  /\ LET last == Len(Body(xhr[r].resp))
         throws == xhr[r].state = "loading" /\ handler_throws(xhr[r], last)
     IN  /\ xhr' = [xhr EXCEPT ![r] =
                      IF xhr[r].state = "done" THEN [@ EXCEPT !.html = <<>>]
                      ELSE IF xhr[r].state = "loading" /\ Attached(r, dom)
                      THEN [Unsent EXCEPT !.state = "done",
                                          !.html = onreadystatechange(xhr[r], last, 4).html]
                      ELSE [Unsent EXCEPT !.state = "done"]]
         /\ dom' = IF throws THEN dom ELSE Append(dom, [id |-> eof_div_id, req |-> r])
         /\ eof_created' = [eof_created EXCEPT ![r] = @ \/ ~throws]
  /\ UNCHANGED <<bridge, gen, counters, last_op, host, title_requests>>

\* the request has ended (readyState 4): the rest of the body is there, and the
\* eof node is created if the handler gets that far.  No handler runs after this
\* one: of the script only the content of its data node remains.
XhrDone(r) ==
  /\ xhr[r].state \in {"loading", "detached"}
  /\ LET last == Len(Body(xhr[r].resp))
         throws == xhr[r].state = "loading" /\ handler_throws(xhr[r], last)
     IN  /\ xhr' = [xhr EXCEPT ![r] =
                      IF xhr[r].state = "loading" /\ Attached(r, dom)
                      THEN [Unsent EXCEPT !.state = "done",
                                          !.html = onreadystatechange(xhr[r], last, 4).html]
                      ELSE [Unsent EXCEPT !.state = "done"]]
         /\ dom' = IF throws THEN dom ELSE Append(dom, [id |-> eof_div_id, req |-> r])
         /\ eof_created' = [eof_created EXCEPT ![r] = ~throws]
  /\ UNCHANGED <<bridge, gen, counters, last_op, host, title_requests>>

\* (mutant) a payload whose "message" is null is passed over like null
decode_lenient(html) ==
  LET event_raw == b64decode(html)
      quiet == [raised |-> FALSE, set_parent |-> FALSE, set_conv |-> FALSE,
                full_set |-> FALSE, event |-> 0]
  IN  IF Len(event_raw) = 0 THEN quiet
      ELSE IF json_loads_raises(event_raw) THEN [quiet EXCEPT !.raised = TRUE]
      ELSE LET event == json_loads(event_raw)
               kind == Events[event].kind
           IN  [raised     |-> kind \in {"noconv", "noparts", "latin1"},
                set_parent |-> kind \in {"frame", "wide", "noconv", "noparts"},
                set_conv   |-> kind \in {"frame", "wide", "noparts"},
                full_set   |-> kind \in {"frame", "wide"},
                event      |-> event]

\* the try block of the polling loop on the content of the data node
decode(html) ==
  LET event_raw == b64decode(html)
      quiet == [raised |-> FALSE, set_parent |-> FALSE, set_conv |-> FALSE,
                full_set |-> FALSE, event |-> 0]
  IN  IF Len(event_raw) = 0 THEN quiet
      ELSE IF json_loads_raises(event_raw) THEN [quiet EXCEPT !.raised = TRUE]
      ELSE LET event == json_loads(event_raw)
               kind == Events[event].kind
           IN  [raised     |-> kind \in {"nomsg", "noconv", "noparts", "latin1"},
                set_parent |-> kind \in {"frame", "wide", "noconv", "noparts"},
                set_conv   |-> kind \in {"frame", "wide", "noparts"},
                full_set   |-> kind \in {"frame", "wide"},
                event      |-> event]

\* (mutant) the whole message is yielded again: full_event_message[0:]
chunk_of_whole(full_event_message, last) == substr(full_event_message, 0)

\* full_event_message[len(last_event_msg):]
chunk_of(full_event_message, last) == substr(full_event_message, Len(last))

IsPrefix(s, t) == Len(s) <= Len(t) /\ SubSeq(t, 1, Len(s)) = s

(***************************************************************************)
(* ask_stream: the generator, and the caller that drives it.  The host is  *)
(* one thread: a generator runs from a next() of the caller to its next    *)
(* yield or to its end, and between two next() the caller can call any     *)
(* public method, ask_stream included, and come back to a generator it     *)
(* kept.                                                                   *)
(***************************************************************************)
Cleaning(g) == gen[g].pc \in {"cleanup", "cleanup_eof", "set_title"}
Running(g) == gen[g].pc \in {"starting", "poll", "read"} \/ Cleaning(g)
Suspended(g) == gen[g].pc \in {"unusable", "chunk", "failed"}
Alive(g) == Running(g) \/ Suspended(g)
Ended(g) == gen[g].pc \in {"returned", "raised", "closed"}

\* a call that polls for ever (refresh_session, get_conversation_info) never gives
\* the control back
Hung == last_op.result = "hangs"

\* the caller has the control: no call is under way, no generator runs and no call
\* polls for ever
CallerFree == ~Hung /\ host.at = "idle" /\ \A g \in Gens : ~Running(g)

\* the caller turns to generator g (0: to another public method); it leaves the
\* generator of its last call if that one is still alive and is not g
Leaves(g) == last_op.gen # 0 /\ last_op.gen # g /\ Alive(last_op.gen)
Turn(g) ==
  /\ CallerFree
  /\ Leaves(g) => turns < MaxTurns
  /\ turns' = IF Leaves(g) THEN turns + 1 ELSE turns

\* the generators when the caller turns to generator g (0: to another public
\* method): the caller has taken the result of the generators that ended, and a
\* generator that is kept while the caller does something else is not alone
Turned(g) ==
  [h \in Gens |->
     IF Ended(h) /\ h # g THEN Over
     ELSE IF Alive(h) THEN [gen[h] EXCEPT !.alone = @ /\ h = g /\ \A k \in Gens \ {h} : ~Alive(k)]
     ELSE gen[h]]

\* the locals of a generator that ended are gone
ForgetLocals(G) == [G EXCEPT !.last_event_msg = <<>>, !.eof_seen = FALSE, !.timed_out = FALSE]

\* (mutant) the check for accessToken is missing
usable_always(s) == s \in Sessions

\* "accessToken" in self.session
usable(s) == s \in {"token", "null_token"}

\* "accessToken" in self.session raises (None, true, a number), or
\* self.session["accessToken"] does right after it (a list)
membership_raises(s) == s \in {"null", "not_mapping"}

\* .replace("BEARER_TOKEN", self.session["accessToken"]) raises: the token is no
\* string
bearer_raises(s) == s = "null_token"

\* _api_request_build_headers raises: self.session["accessToken"] on a value
\* without it
headers_raise(s) == s \notin {"token", "null_token"}

\* not self.session
needs_refresh(s) == s \in {"empty", "null"}

\* a session node is in the document.  refresh_session removes the node it has
\* parsed, so a node that stays is one whose text was not JSON.
StaleSessionNode(document) == \E i \in 1..Len(document) : document[i].id = session_div_id

\* the document once the request of refresh_session has been answered: its onload
\* appends a session node at status 200 only
answered(answer, document) ==
  IF answer = "not_200" THEN document
  ELSE Append(document, [id |-> session_div_id, req |-> 0])

\* the call under way ends: it returns or raises, or it polls for ever
ended(op, result, g) ==
  /\ host' = Idle
  /\ last_op' = [op |-> op, result |-> result, gen |-> g]

\* the first round trip of refresh_session in the call h: the script is evaluated
\* and its request answered.  The loop then takes the first session node of the
\* document; without a node it polls for ever.  G are the generators as the call
\* found them.
session_requested(h, G) ==
  \E answer \in SessionAnswers :
    /\ dom' = answered(answer, dom)
    /\ IF ~StaleSessionNode(dom) /\ answer = "not_200"
       THEN /\ ended(h.op, "hangs", h.gen)
            /\ gen' = IF h.gen = 0 THEN G ELSE [G EXCEPT ![h.gen].pc = "hung"]
       ELSE /\ host' = [h EXCEPT !.at = "session_node",
                                 !.text = IF StaleSessionNode(dom) THEN "not_json"
                                          ELSE answer]
            /\ last_op' = last_op
            /\ gen' = G

\* session_datas[0].inner_text(), json.loads and the assignment to self.session:
\* json.loads raises on a text that is not JSON, before the node is removed
session_read ==
  /\ host.at = "session_node"
  /\ IF host.text = "not_json"
     THEN /\ ended(host.op, "raised", host.gen)
          /\ gen' = IF host.gen = 0 THEN gen ELSE [gen EXCEPT ![host.gen].pc = "raised"]
          /\ session' = session
     ELSE /\ session' = host.text
          /\ host' = [host EXCEPT !.at = "session_set"]
          /\ UNCHANGED <<last_op, gen>>
  /\ UNCHANGED <<conversation_id, parent_message_id, conversation_title_set, uuids, browser,
                 counters, title_requests>>

\* (mutant) the end of the loop does not look at the clock
loop_ends_on_eof_only(G, full_is_none) == G.eof_seen

\* (mutant) the timeout ends the loop on any tick, also one that decoded a message
loop_ends_on_any_tick(G, full_is_none) == G.eof_seen \/ G.timed_out

\* (mutant) the eof node is looked for again when the loop is about to end, after the
\* data node was read
exit_by_eof_sampled_late(G, full_is_none) ==
  IF query_selector_all(eof_div_id) # <<>> THEN "eof"
  ELSE IF G.timed_out /\ full_is_none THEN "timeout"
  ELSE "none"

\* which disjunct of the condition ends the loop of generator G: the eof node
\* sampled at the start of the tick, else the timeout
exit_by(G, full_is_none) ==
  IF G.eof_seen THEN "eof"
  ELSE IF G.timed_out /\ full_is_none THEN "timeout"
  ELSE "none"

\* the condition that ends the loop: the eof node was seen on this tick, or the
\* timeout has elapsed and this tick decoded no message
loop_ends(G, full_is_none) == exit_by(G, full_is_none) # "none"

\* (mutant) every call starts a conversation of its own
request_unthreaded(new_message_id) ==
  [conversation_id |-> None, parent_message_id |-> new_message_id, id |-> new_message_id]

\* the Request Envelope (its fields that vary)
request(new_message_id) ==
  [conversation_id |-> conversation_id, parent_message_id |-> parent_message_id,
   id |-> new_message_id]

\* where the first next() of a call takes its generator once self.session is
\* there, given the session
first_stop(s) ==
  IF membership_raises(s) THEN "raised"
  ELSE IF ~usable(s) THEN "unusable"
  ELSE IF bearer_raises(s) THEN "raised"
  ELSE "poll"

\* how a public call ended that took a generator there
result_at(stop) ==
  IF stop = "hung" THEN "hangs"
  ELSE IF stop \in {"raised", "returned"} THEN stop
  ELSE IF stop = "closed" THEN "abandoned"
  ELSE "running"

\* self.page.evaluate(code) in generator g, for the message id drawn: the data node
\* is created and the request sent; the generator is at the top of its loop
injected(g, G, document, new_message_id) ==
  /\ dom' = Append(document, [id |-> stream_div_id, req |-> g])
  /\ xhr' = [xhr EXCEPT ![g] = [Unsent EXCEPT !.state = "sent",
                                              !.request = request(new_message_id)]]
  /\ gen' = [G EXCEPT ![g].pc = "poll"]
  /\ ended("ask_stream", "running", g)

\* ask_stream from l.292 on, in the call h: the message id is drawn, and the
\* generator yields the unusable-session message, raises, or goes on to evaluate its
\* script.  `first`: no page round trip was made in this step yet, so that the
\* evaluate() is part of it.
ask_stream_goes_on(h, G, document, first) ==
  LET g == h.gen
      stop == first_stop(session)
  IN  /\ uuids' = uuids + 1
      /\ parent_message_id' = parent_message_id
      /\ IF stop = "poll" /\ first THEN injected(g, G, document, uuid4(uuids + 1))
         ELSE /\ dom' = document
              /\ xhr' = xhr
              /\ IF stop = "poll"
                 THEN /\ gen' = G
                      /\ host' = [h EXCEPT !.at = "inject"]
                      /\ last_op' = last_op
                 ELSE /\ gen' = [G EXCEPT ![g] =
                                   [@ EXCEPT !.pc = stop,
                                             !.response = IF stop = "unusable"
                                                          THEN <<UnusableMessage>> ELSE <<>>,
                                             !.nchunks = IF stop = "unusable" THEN 1 ELSE 0]]
                      /\ ended("ask_stream", result_at(stop), g)

\* the call itself with the first next() on its generator, up to the first page
\* round trip it waits for after one it has made: in refresh_session when the
\* session is falsy, else up to the first yield or the first tick of the loop, or
\* up to where it raises
ask_stream ==
  /\ Turn(calls + 1)
  /\ calls < MaxCalls
  /\ calls' = calls + 1
  /\ LET g == calls + 1
         h == [Idle EXCEPT !.op = "ask_stream", !.gen = g,
                           !.before = <<conversation_id, parent_message_id>>]
         G == [Turned(g) EXCEPT ![g] = [Unborn EXCEPT !.pc = "starting",
                                                      !.alone = \A k \in Gens : ~Alive(k)]]
     IN  IF needs_refresh(session)
         THEN /\ session_requested(h, G)
              /\ UNCHANGED <<parent_message_id, uuids, xhr>>
         ELSE ask_stream_goes_on(h, G, dom, TRUE)
  /\ UNCHANGED <<session, conversation_id, conversation_title_set, eof_created, ops,
                 title_requests>>

\* self.page.evaluate(code), after a refresh_session
request_injected ==
  /\ host.at = "inject"
  /\ injected(host.gen, gen, dom, uuid4(uuids))
  /\ UNCHANGED <<bridge, eof_created, counters, title_requests>>

\* eof_datas = self.page.query_selector_all(eof)
poll_eof(g) ==
  /\ gen[g].pc = "poll"
  /\ gen' = [gen EXCEPT ![g] = [@ EXCEPT !.pc = "read",
                                         !.eof_seen = (query_selector_all(eof_div_id) # <<>>)]]
  /\ UNCHANGED <<bridge, browser, counters, last_op, host, title_requests>>

\* what inner_html() raising makes of the try block: nothing is set, the except
\* branch is taken
inner_html_raises ==
  [raised |-> TRUE, set_parent |-> FALSE, set_conv |-> FALSE, full_set |-> FALSE, event |-> 0]

\* the tick of generator g from the try block on, given what the try block did: up
\* to a yield, the end of the loop or the sleep
after_read(g, d) ==
  LET G == gen[g]
      full_event_message == join(Events[d.event].parts)
  IN  /\ parent_message_id' = IF d.set_parent THEN Events[d.event].id
                              ELSE parent_message_id
      /\ conversation_id' = IF d.set_conv THEN Events[d.event].conv
                            ELSE conversation_id
      /\ gen' = [gen EXCEPT ![g] =
                   IF d.raised
                   THEN [G EXCEPT !.pc = "failed",
                                  !.response = Append(G.response, FailedMessage),
                                  !.nchunks = Counted(G.nchunks),
                                  !.exit = "failed"]
                   ELSE IF d.full_set
                   THEN [G EXCEPT !.pc = "chunk",
                                  !.response = G.response
                                                 \o chunk_of(full_event_message, G.last_event_msg),
                                  !.nchunks = Counted(G.nchunks),
                                  !.last_event_msg = full_event_message,
                                  !.last_frame = d.event,
                                  !.prefix_ok = (G.prefix_ok
                                                   /\ IsPrefix(G.last_event_msg, full_event_message))]
                   ELSE IF loop_ends(G, TRUE)
                   THEN [G EXCEPT !.pc = "cleanup", !.exit = exit_by(G, TRUE)]
                   ELSE [G EXCEPT !.pc = "poll"]]

\* the rest of the tick, up to a yield, the end of the loop or the sleep
poll_data(g) ==
  /\ gen[g].pc = "read"
  /\ LET conversation_datas == query_selector_all(stream_div_id)
     IN  IF conversation_datas = <<>>
         THEN /\ gen' = [gen EXCEPT ![g] = [@ EXCEPT !.pc = "poll"]]
              /\ UNCHANGED <<conversation_id, parent_message_id>>
         ELSE \E d \in {decode(xhr[conversation_datas[1].req].html)} : after_read(g, d)
  /\ UNCHANGED <<session, conversation_title_set, uuids, browser, counters, last_op, host,
                 title_requests>>

\* next() on generator g, suspended after a chunk of text
next_after_chunk(g) ==
  /\ Turn(g)
  /\ gen[g].pc = "chunk"
  /\ gen' = [Turned(g) EXCEPT ![g] =
               IF loop_ends(gen[g], FALSE)
               THEN [@ EXCEPT !.pc = "cleanup", !.exit = exit_by(gen[g], FALSE)]
               ELSE [@ EXCEPT !.pc = "poll"]]
  /\ last_op' = [op |-> "ask_stream", result |-> "running", gen |-> g]
  /\ UNCHANGED <<bridge, browser, calls, ops, host, title_requests>>

\* next() on generator g, suspended after the failure message: break
next_after_failed(g) ==
  /\ Turn(g)
  /\ gen[g].pc = "failed"
  /\ gen' = [Turned(g) EXCEPT ![g] = [@ EXCEPT !.pc = "cleanup"]]
  /\ last_op' = [op |-> "ask_stream", result |-> "running", gen |-> g]
  /\ UNCHANGED <<bridge, browser, calls, ops, host, title_requests>>

\* next() on generator g, suspended after the unusable-session message: return
next_after_unusable(g) ==
  /\ Turn(g)
  /\ gen[g].pc = "unusable"
  /\ gen' = [Turned(g) EXCEPT ![g] = [@ EXCEPT !.pc = "returned"]]
  /\ last_op' = [op |-> "ask_stream", result |-> "returned", gen |-> g]
  /\ UNCHANGED <<bridge, browser, calls, ops, host, title_requests>>

\* the caller stops iterating generator g: it is closed where it stands, at a yield
abandon(g) ==
  /\ Turn(g)
  /\ Suspended(g)
  /\ gen' = [Turned(g) EXCEPT ![g] = ForgetLocals([@ EXCEPT !.pc = "closed"])]
  /\ last_op' = [op |-> "ask_stream", result |-> "abandoned", gen |-> g]
  /\ UNCHANGED <<bridge, browser, calls, ops, host, title_requests>>

\* time passes while the loop of generator g runs or waits at a yield: from some
\* moment on more than self.timeout seconds have gone by since its start_time
\* (each generator has its own start_time, and self.timeout is read on every tick)
TimePasses(g) ==
  /\ gen[g].pc \in {"poll", "read", "chunk"}
  /\ ~gen[g].timed_out
  /\ gen' = [gen EXCEPT ![g] = [@ EXCEPT !.timed_out = TRUE]]
  /\ UNCHANGED <<bridge, browser, counters, last_op, host, title_requests>>

\* (mutant) the title flag is not looked at
title_requested_without_flag == conversation_id # None

\* _set_title goes on to its request: it does not return at its first line
title_requested == ~(conversation_id = None \/ (conversation_id # None /\ conversation_title_set))

\* how the gen_title POST ends, given the answer of the server
gen_title(answer) == IF answer \in {"ok_json", "ok_not_json"} THEN "ok" ELSE "failed"

\* _set_title, given what the gen_title POST would answer: the title flag it leaves
_set_title(answer) ==
  IF ~title_requested THEN conversation_title_set
  ELSE IF gen_title(answer) = "ok" THEN TRUE ELSE conversation_title_set

\* generator g ends so, having invoked _set_title or not
ends(g, result, invoked) ==
  /\ gen' = [gen EXCEPT ![g] = ForgetLocals([@ EXCEPT !.pc = result,
                                                     !.title_calls = @ + invoked])]
  /\ last_op' = [op |-> "ask_stream", result |-> result, gen |-> g]

\* after the loop of generator g, _cleanup_divs: the first evaluate().  An
\* evaluate() whose script throws (getElementById(...) is null) raises in the host.
cleanup(g) ==
  /\ gen[g].pc = "cleanup"
  /\ IF query_selector_all(stream_div_id) = <<>>
     THEN /\ ends(g, "raised", 0)
          /\ dom' = dom
     ELSE /\ dom' = RemoveFirst(dom, stream_div_id)
          /\ gen' = [gen EXCEPT ![g].pc = "cleanup_eof"]
          /\ last_op' = last_op
  /\ xhr' = Collected(xhr, dom')
  /\ UNCHANGED <<bridge, eof_created, counters, host, title_requests>>

\* _cleanup_divs: the second evaluate(); then _set_title up to its request: it
\* returns at its first line, or raises when the headers of the request cannot be
\* built
cleanup_eof(g) ==
  /\ gen[g].pc = "cleanup_eof"
  /\ IF query_selector_all(eof_div_id) = <<>>
     THEN /\ ends(g, "raised", 0)
          /\ dom' = dom
     ELSE /\ dom' = RemoveFirst(dom, eof_div_id)
          /\ IF ~title_requested THEN ends(g, "returned", 1)
             ELSE IF headers_raise(session) THEN ends(g, "raised", 1)
             ELSE /\ gen' = [gen EXCEPT ![g] = [@ EXCEPT !.pc = "set_title",
                                                         !.title_calls = @ + 1]]
                  /\ last_op' = last_op
  /\ UNCHANGED <<bridge, xhr, eof_created, counters, host, title_requests>>

\* _set_title: the gen_title POST is answered
gen_title_answered(g) ==
  /\ gen[g].pc = "set_title"
  /\ \E answer \in RestAnswers :
       /\ conversation_title_set' = _set_title(answer)
       /\ title_requests' = Append(title_requests, gen_title(answer))
  /\ ends(g, "returned", 0)
  /\ UNCHANGED <<session, conversation_id, parent_message_id, uuids, browser, counters, host>>

\* ask(message), once the generator G of its ask_stream has ended: the chunks added
\* up, or the fallback
ask_result(G) == IF G.nchunks > 0 THEN G.response ELSE <<FallbackMessage>>

(***************************************************************************)
(* The other public operations.  The caller makes them when it has the     *)
(* control: between two calls, or between two next() on a generator.       *)
(***************************************************************************)
\* the caller calls a public method other than ask_stream
other_operation ==
  /\ Turn(0)
  /\ ops < MaxOps
  /\ ops' = ops + 1
  /\ UNCHANGED <<eof_created, calls, title_requests>>

\* (mutant) the parent id is not drawn again
new_conversation_keeps_parent ==
  /\ other_operation
  /\ conversation_id' = None
  /\ conversation_title_set' = FALSE
  /\ last_op' = [op |-> "new_conversation", result |-> "returned", gen |-> 0]
  /\ gen' = Turned(0)
  /\ UNCHANGED <<session, parent_message_id, uuids, browser, host>>

new_conversation ==
  /\ other_operation
  /\ parent_message_id' = uuid4(uuids + 1)
  /\ uuids' = uuids + 1
  /\ conversation_id' = None
  /\ conversation_title_set' = FALSE
  /\ last_op' = [op |-> "new_conversation", result |-> "returned", gen |-> 0]
  /\ gen' = Turned(0)
  /\ UNCHANGED <<session, browser, host>>

\* the call h of a public method other than ask_stream, as it is made
called(op, id) ==
  [Idle EXCEPT !.op = op, !.id = id, !.before = <<conversation_id, parent_message_id>>]

\* refresh_session(): its first round trip
refresh_session ==
  /\ other_operation
  /\ session_requested(called("refresh_session", None), Turned(0))
  /\ UNCHANGED <<session, conversation_id, parent_message_id, conversation_title_set, uuids,
                 xhr>>

\* how get_conversation_info ends, given how its refresh ended and the answer of
\* the conversation endpoint: without a token it returns None; its node is created
\* only at status 200, and a text that is not JSON is polled again for ever
conversation_info(e, answer) ==
  IF e.result # "returned" THEN e.result
  ELSE IF membership_raises(e.session) THEN "raised"
  ELSE IF ~usable(e.session) THEN "unusable"
  ELSE IF bearer_raises(e.session) THEN "raised"
  ELSE IF answer \in {"not_200", "not_json"} THEN "hangs"
  ELSE answer

\* how a call ends that ended so in get_conversation_info
info_result(info) == IF info \in {"raised", "hangs"} THEN info ELSE "returned"

\* how switch_to_conversation ends, given how get_conversation_info ended:
\* conversation_info["current_node"] raises on an object without it
switch_result(info) ==
  IF info = "no_current_node" THEN "raised" ELSE info_result(info)

\* get_conversation_info with the session s gets as far as the script of its request
info_requested(s) ==
  conversation_info([result |-> "returned", session |-> s], "info") = "info"

\* get_conversation_info from l.104 on, in the call h (of get_conversation_info or
\* of switch_to_conversation): it returns None or raises, or evaluates its script
\* and polls for its node
info_goes_on(h, G, document) ==
  LET info == conversation_info([result |-> "returned", session |-> session], "info")
  IN  /\ dom' = document
      /\ gen' = G
      /\ UNCHANGED <<parent_message_id, uuids, xhr>>
      /\ IF info_requested(session)
         THEN /\ host' = [h EXCEPT !.at = "info"]
              /\ last_op' = last_op
         ELSE ended(h.op, info_result(info), 0)

\* the node of get_conversation_info is polled, read and removed; in
\* switch_to_conversation, parent_message_id is then taken from it
conversation_info_read ==
  /\ host.at = "info"
  /\ \E answer \in InfoAnswers :
       LET info == conversation_info([result |-> "returned", session |-> session], answer)
       IN  /\ parent_message_id' = IF host.op = "switch_to_conversation" /\ info = "info"
                                   THEN current_node(host.id)
                                   ELSE parent_message_id
           /\ ended(host.op, IF host.op = "switch_to_conversation" THEN switch_result(info)
                             ELSE info_result(info), 0)
  /\ UNCHANGED <<session, conversation_id, conversation_title_set, uuids, browser, gen,
                 counters, title_requests>>

get_conversation_info(id) ==
  /\ other_operation
  /\ LET h == called("get_conversation_info", id)
     IN  IF needs_refresh(session)
         THEN /\ session_requested(h, Turned(0))
              /\ UNCHANGED <<parent_message_id, uuids, xhr>>
         ELSE info_goes_on(h, Turned(0), dom)
  /\ UNCHANGED <<session, conversation_id, conversation_title_set>>

switch_to_conversation(id) ==
  /\ other_operation
  /\ conversation_id' = id
  /\ LET h == called("switch_to_conversation", id)
     IN  IF needs_refresh(session)
         THEN /\ session_requested(h, Turned(0))
              /\ UNCHANGED <<parent_message_id, uuids, xhr>>
         ELSE info_goes_on(h, Turned(0), dom)
  /\ UNCHANGED <<session, conversation_title_set>>

\* how get_history ends: the headers need self.session["accessToken"], and the
\* history is read from json["items"]
get_history_result(s, answer) ==
  IF headers_raise(s) THEN "raised"
  ELSE IF answer = "ok_json" THEN "value"
  ELSE IF answer = "ok_not_json" THEN "raised"
  ELSE "warned_none"

\* how delete_conversation ends
delete_conversation_result(s, id, answer) ==
  IF id = None THEN "silent_none"
  ELSE IF headers_raise(s) THEN "raised"
  ELSE IF answer = "ok_json" THEN "value"
  ELSE IF answer = "ok_not_json" THEN "silent_none"
  ELSE "warned_none"

\* how the REST call h ends, given the answer to its request
rest_result(h, s, answer) ==
  IF h.op = "get_history" THEN get_history_result(s, answer)
  ELSE delete_conversation_result(s, h.id, answer)

\* the REST call h gets as far as its request
rest_requested(h, s) == ~headers_raise(s) /\ (h.op = "delete_conversation" => h.id # None)

\* get_history and delete_conversation from their refresh on, in the call h.
\* `first`: no page round trip was made in this step yet, so that the request is
\* part of it.
rest_goes_on(h, G, document, first) ==
  /\ dom' = document
  /\ gen' = G
  /\ UNCHANGED <<parent_message_id, uuids, xhr>>
  /\ IF rest_requested(h, session) /\ ~first
     THEN /\ host' = [h EXCEPT !.at = "rest"]
          /\ last_op' = last_op
     ELSE \E answer \in RestAnswers : ended(h.op, rest_result(h, session, answer), 0)

\* the request of get_history or delete_conversation, after a refresh_session
rest_answered ==
  /\ host.at = "rest"
  /\ \E answer \in RestAnswers : ended(host.op, rest_result(host, session, answer), 0)
  /\ UNCHANGED <<bridge, browser, gen, counters, title_requests>>

get_history ==
  /\ other_operation
  /\ LET h == called("get_history", None)
     IN  IF needs_refresh(session)
         THEN /\ session_requested(h, Turned(0))
              /\ UNCHANGED <<parent_message_id, uuids, xhr>>
         ELSE rest_goes_on(h, Turned(0), dom, TRUE)
  /\ UNCHANGED <<session, conversation_id, conversation_title_set>>

\* delete_conversation(uuid); uuid = None stands for no argument
delete_conversation(uuid) ==
  /\ other_operation
  /\ LET h == called("delete_conversation", IF uuid # None THEN uuid ELSE conversation_id)
     IN  IF needs_refresh(session)
         THEN /\ session_requested(h, Turned(0))
              /\ UNCHANGED <<parent_message_id, uuids, xhr>>
         ELSE rest_goes_on(h, Turned(0), dom, TRUE)
  /\ UNCHANGED <<session, conversation_id, conversation_title_set>>

\* the last round trip of refresh_session, which removes the session node; the
\* call that made the refresh then goes on, up to its next round trip
session_removed ==
  /\ host.at = "session_set"
  /\ LET document == RemoveFirst(dom, session_div_id)
     IN  IF host.op = "refresh_session"
         THEN /\ dom' = document
              /\ ended("refresh_session", "returned", 0)
              /\ UNCHANGED <<parent_message_id, uuids, xhr, gen>>
         ELSE IF host.op = "ask_stream" THEN ask_stream_goes_on(host, gen, document, FALSE)
         ELSE IF host.op \in {"get_history", "delete_conversation"}
         THEN rest_goes_on(host, gen, document, FALSE)
         ELSE info_goes_on(host, gen, document)
  /\ UNCHANGED <<session, conversation_id, conversation_title_set, eof_created, counters,
                 title_requests>>

Next ==
  \/ ask_stream
  \/ \E g \in Gens : poll_eof(g)
  \/ \E g \in Gens : poll_data(g)
  \/ \E g \in Gens : next_after_chunk(g)
  \/ \E g \in Gens : next_after_failed(g)
  \/ \E g \in Gens : next_after_unusable(g)
  \/ \E g \in Gens : abandon(g)
  \/ \E g \in Gens : TimePasses(g)
  \/ \E g \in Gens : cleanup(g)
  \/ \E g \in Gens : cleanup_eof(g)
  \/ \E g \in Gens : gen_title_answered(g)
  \/ session_read
  \/ session_removed
  \/ request_injected
  \/ conversation_info_read
  \/ rest_answered
  \/ \E r \in Gens : XhrHeaders(r, ThreadResponses)
  \/ \E r \in Gens : XhrLoading(r, Boundary)
  \/ \E r \in Gens : XhrDone(r)
  \/ new_conversation
  \/ refresh_session
  \/ \E id \in ConversationIds : switch_to_conversation(id)
  \/ \E id \in ConversationIds : get_conversation_info(id)
  \/ get_history
  \/ \E uuid \in ConversationIds \cup {None} : delete_conversation(uuid)

Spec == Init /\ [][Next]_vars

(***************************************************************************)
(* One call on a fresh bridge, the response delivered in pieces that end   *)
(* anywhere, also in the middle of an event.                               *)
(***************************************************************************)
first_ask_stream == calls = 0 /\ ask_stream

CallNext ==
  \/ first_ask_stream
  \/ poll_eof(1)
  \/ poll_data(1)
  \/ next_after_chunk(1)
  \/ next_after_failed(1)
  \/ next_after_unusable(1)
  \/ abandon(1)
  \/ TimePasses(1)
  \/ cleanup(1)
  \/ cleanup_eof(1)
  \/ gen_title_answered(1)
  \/ session_read
  \/ session_removed
  \/ request_injected
  \/ XhrHeaders(1, ResponseIds)
  \/ XhrLoading(1, CutOffsets)
  \/ XhrDone(1)

CallSpec == Init /\ [][CallNext]_vars

(***************************************************************************)
(* The page can also be replaced under a call (a navigation, a reload):    *)
(* the injected nodes and scripts go with the document.                    *)
(***************************************************************************)
\* the document is replaced between two round trips of a polling loop
page_navigates ==
  /\ \E g \in Gens : gen[g].pc \in {"poll", "read"}
  /\ dom # <<>>
  /\ dom' = <<>>
  /\ xhr' = [r \in DOMAIN xhr |->
               IF xhr[r].state = "unsent" THEN xhr[r] ELSE [Unsent EXCEPT !.state = "gone"]]
  /\ UNCHANGED <<bridge, eof_created, gen, counters, last_op, host, title_requests>>

\* the page navigates inside a tick of generator g, between query_selector_all for
\* the data node and inner_html() on the handle it returned: the handle is one of
\* the replaced document, and inner_html() on it either still gives the text the node
\* had or raises, which the except branch of the tick turns into the failure message
page_navigates_in_tick(g) ==
  /\ gen[g].pc = "read"
  /\ query_selector_all(stream_div_id) # <<>>
  /\ dom' = <<>>
  /\ xhr' = [r \in DOMAIN xhr |->
               IF xhr[r].state = "unsent" THEN xhr[r] ELSE [Unsent EXCEPT !.state = "gone"]]
  /\ \E d \in {decode(xhr[query_selector_all(stream_div_id)[1].req].html), inner_html_raises} :
       after_read(g, d)
  /\ UNCHANGED <<session, conversation_title_set, uuids, eof_created, counters, last_op,
                 host, title_requests>>

NavSpec == Init /\ [][CallNext \/ page_navigates \/ page_navigates_in_tick(1)]_vars

(***************************************************************************)
(* The host that keeps iterating, with a clock that advances: every step   *)
(* of the generator that can be taken is taken, and the timeout elapses.   *)
(* Nothing makes the server answer, and nothing keeps the page from being  *)
(* replaced.                                                               *)
(***************************************************************************)
FairSpec ==
  /\ NavSpec
  /\ WF_vars(session_read)
  /\ WF_vars(session_removed)
  /\ WF_vars(request_injected)
  /\ WF_vars(poll_eof(1))
  /\ WF_vars(poll_data(1))
  /\ WF_vars(next_after_chunk(1))
  /\ WF_vars(next_after_failed(1))
  /\ WF_vars(cleanup(1))
  /\ WF_vars(cleanup_eof(1))
  /\ WF_vars(gen_title_answered(1))
  /\ WF_vars(TimePasses(1))

(***************************************************************************)
(* Claims.                                                                 *)
(***************************************************************************)
\* the call of generator g has ended (returned or raised, not abandoned)
CallEnded(g) == gen[g].pc \in {"returned", "raised"}
\* generator g stands in the polling loop or at one of its yields
InLoop(g) == gen[g].pc \in {"poll", "read", "chunk", "failed"}
\* the data node the poller reads: the first one in the document
FirstDataHtml == xhr[query_selector_all(stream_div_id)[1].req].html
\* the data node read by the poller holds the encoding of event k
Shows(k) == query_selector_all(stream_div_id) # <<>> /\ FirstDataHtml = btoa(Payload(k))
NoEofNode == query_selector_all(eof_div_id) = <<>>

\* C1: in a call in which every payload decoded so far was a frame whose joined text
\* extends the joined text of the frame decoded before it, the chunks yielded so far,
\* concatenated in order, are the joined text of the last frame decoded, whichever
\* frames the poller skipped.
C1_ChunksConcatenate ==
  \A g \in Gens :
    (gen[g].last_frame # 0 /\ gen[g].prefix_ok /\ gen[g].exit # "failed")
      => gen[g].response = join(Events[gen[g].last_frame].parts)

\* two chunks, "H" then "i", of the frames "H" and "Hi"
C1_Witness ==
  /\ gen[1].last_frame = 2 /\ gen[1].nchunks = 2 /\ gen[1].prefix_ok
  /\ gen[1].response = <<"H", "i">>

\* C2: a call made with a Session that is a mapping without accessToken (after the
\* refresh an empty session gets, when that refresh has returned) yields the
\* unusable-session message and nothing else, and ask returns it; its request is
\* never made, none of its nodes enters the document, and the call leaves
\* conversation_id and parent_message_id as they are.
C2_UnusableSession ==
  /\ [][\A g \in Gens :
          (gen[g].pc \in {"unborn", "starting"} /\ gen'[g].pc \notin {"unborn", "starting"}
             /\ session' \in {"empty", "no_token"} /\ gen'[g].pc \notin {"hung", "raised"})
            => /\ gen'[g].pc = "unusable"
               /\ gen'[g].response = <<UnusableMessage>>
               /\ gen'[g].nchunks = 1]_vars
  /\ [][\A g \in Gens :
          (gen[g].pc \in {"unborn", "starting"} /\ gen'[g] # gen[g])
            => UNCHANGED <<conversation_id, parent_message_id>>]_vars
  /\ [][\A g \in Gens :
          gen[g].pc = "unusable"
            => /\ gen'[g].response = gen[g].response /\ gen'[g].nchunks = gen[g].nchunks
               /\ gen'[g].pc \in {"unusable", "returned", "closed"}
               /\ gen'[g].pc # "unusable"
                    => /\ ask_result(gen'[g]) = <<UnusableMessage>>
                       /\ UNCHANGED <<conversation_id, parent_message_id, dom, xhr>>]_vars
  /\ [](\A g \in Gens :
          gen[g].pc = "unusable"
            => /\ xhr[g].state = "unsent"
               /\ \A i \in 1..Len(dom) : dom[i].req # g)

\* ask has returned the unusable-session message of a session without accessToken
C2_Witness ==
  /\ gen[1].pc = "returned"
  /\ session = "no_token"
  /\ ask_result(gen[1]) = <<UnusableMessage>>
  /\ xhr[1].state = "unsent"

\* the payloads that make the try block of ask_stream raise
Malformed == {k \in EventIds : Events[k].kind \in {"nomsg", "noconv", "noparts", "latin1"}}

\* C3: a tick that reads a malformed payload yields the failure message, once, and
\* ends the loop, whether or not the eof node is there and the timeout has elapsed;
\* the call yields nothing after it.
C3_FatalDecode ==
  /\ [][\A g \in Gens :
          (gen[g].pc = "read" /\ gen'[g].pc # "read" /\ \E k \in Malformed : Shows(k))
            => /\ gen'[g].pc = "failed"
               /\ gen'[g].response = Append(gen[g].response, FailedMessage)
               /\ gen'[g].nchunks = Counted(gen[g].nchunks)]_vars
  /\ [][\A g \in Gens :
          (gen[g].pc = "failed" \/ (Cleaning(g) /\ gen[g].exit = "failed"))
            => /\ gen'[g].response = gen[g].response /\ gen'[g].nchunks = gen[g].nchunks
               /\ gen'[g].pc \in {gen[g].pc, "cleanup", "cleanup_eof", "set_title", "returned",
                                   "raised", "closed"}]_vars

\* the failure message after a chunk of text, with no eof node seen and no timeout
C3_Witness ==
  /\ gen[1].pc = "failed" /\ gen[1].last_frame # 0 /\ gen[1].nchunks = 2
  /\ ~gen[1].eof_seen /\ ~gen[1].timed_out
  /\ gen[1].response = <<"H", FailedMessage>>

\* no script of this bridge has created an eof node
NoEofEver == \A r \in Gens : ~eof_created[r]

\* C4: a call in which no valid frame was published and no eof node was created, and
\* whose loop ended by the timeout, ends without raising and with no chunk yielded,
\* and ask returns the fallback string.
C4_TimeoutSilent ==
  \A g \in Gens :
    (CallEnded(g) /\ gen[g].exit = "timeout" /\ gen[g].last_frame = 0 /\ NoEofEver)
      => (gen[g].nchunks = 0 /\ gen[g].pc = "returned" /\ ask_result(gen[g]) = <<FallbackMessage>>)

\* C5: a tick that starts after the timeout has elapsed and finds neither the data
\* node nor the eof node ends the loop, with no chunk yielded.
C5_NoDataNodeTimeout ==
  [][\A g \in Gens :
       (gen[g].pc = "read" /\ gen'[g].pc # "read" /\ gen[g].timed_out /\ ~gen[g].eof_seen
          /\ NoEofNode /\ query_selector_all(stream_div_id) = <<>>)
         => (gen'[g].pc = "cleanup" /\ gen'[g].nchunks = 0)]_vars

\* C6: however the loop ended, when the call has ended its two nodes have left the
\* document and _set_title was invoked.
C6_AlwaysCleanedUp ==
  \A g \in Gens :
    (CallEnded(g) /\ gen[g].exit \in {"eof", "timeout", "failed"})
      => /\ gen[g].title_calls = 1
         /\ \A i \in 1..Len(dom) : dom[i].req # g

\* C7: with a usable session, a host that keeps polling and a clock that advances,
\* the polling loop is left, also when the eof node is never created.
C7_LoopExits == InLoop(1) ~> ~InLoop(1)

\* the data node read by the poller holds a frame
ShowsFrame == \E k \in EventIds : Events[k].kind = "frame" /\ Shows(k)

\* the document has no data node: the tick takes `continue` before the test of the
\* timeout
NoDataNode == query_selector_all(stream_div_id) = <<>>

\* C7 (amended): with a usable session, a host that keeps polling and a clock that
\* advances, the polling loop is left, unless from some moment on the data node holds
\* a frame and no eof node is created, or from some moment on the document has no
\* data node (the page was replaced): in these two cases the loop polls for ever.
C7_LoopExitsUnlessFrameStalls ==
  \/ []<>(~InLoop(1))
  \/ <>[](InLoop(1) /\ ShowsFrame /\ NoEofNode)
  \/ <>[](InLoop(1) /\ NoDataNode)

\* the loop has ended by the timeout while the request has not ended
C7_Witness ==
  /\ gen[1].pc = "cleanup" /\ gen[1].exit = "timeout"
  /\ xhr[1].state \in {"sent", "loading"}
  /\ NoEofNode

\* a step of the public method op: one that makes the call, or one of a call under way
StepOf(op) ==
  \/ host.op = op
  \/ host'.op = op
  \/ host.at = "idle" /\ host'.at = "idle" /\ ops' # ops /\ last_op'.op = op

\* the step on which a call of the public method op ends (returns, raises, or is
\* at the loop it never leaves)
Ends(op) == StepOf(op) /\ host'.at = "idle"

\* C8: when a call that decoded a frame has ended with the eof node seen, the caller
\* having made no other call on the bridge while it ran, conversation_id and
\* parent_message_id are the conversation_id and message.id of the last frame
\* decoded; apart from the tick of a generator that decodes a payload, only
\* new_conversation and switch_to_conversation change them; and the envelope of a
\* call carries their values.
C8_NextCallThreads ==
  /\ [](\A g \in Gens :
          (CallEnded(g) /\ gen[g].exit = "eof" /\ gen[g].last_frame # 0 /\ gen[g].alone)
            => /\ conversation_id = Events[gen[g].last_frame].conv
               /\ parent_message_id = Events[gen[g].last_frame].id)
  /\ [][<<conversation_id, parent_message_id>>' # <<conversation_id, parent_message_id>>
          => \/ StepOf("new_conversation")
             \/ StepOf("switch_to_conversation")
             \/ \E g \in Gens : gen[g].pc = "read" /\ gen'[g].pc # "read"]_vars
  /\ [][\A g \in Gens :
          (gen[g].pc \in {"unborn", "starting"} /\ gen'[g].pc = "poll")
            => /\ xhr'[g].state = "sent"
               /\ xhr'[g].request.conversation_id = conversation_id
               /\ xhr'[g].request.parent_message_id = parent_message_id]_vars

\* the envelope of a second call, made right after a call that decoded the frame of
\* message m1 in conversation c1 and ended on the eof node, its two nodes removed
C8_Witness ==
  /\ calls = 2 /\ ops = 0 /\ turns = 0
  /\ xhr[1].state = "done" /\ Len(dom) = 1
  /\ xhr[2].state = "sent"
  /\ xhr[2].request = [conversation_id |-> "c1", parent_message_id |-> "m1", id |-> uuid4(3)]

\* every identifier this process has drawn so far, and every one the server uses
UsedIds ==
  {uuid4(n) : n \in 1..uuids}
    \cup {Events[k].id : k \in EventIds}
    \cup {current_node(c) : c \in ConversationIds}

\* C9: new_conversation leaves conversation_id null and a parent_message_id that is
\* none of the identifiers drawn or received before, and the envelope of the call
\* that follows it carries the two.
C9_NewConversationEnvelope ==
  /\ [][Ends("new_conversation")
          => /\ conversation_id' = None
             /\ parent_message_id' \notin UsedIds
             /\ parent_message_id' = uuid4(uuids')]_vars
  /\ [][\A g \in Gens :
          (gen[g].pc \in {"unborn", "starting"} /\ gen'[g].pc = "poll"
             /\ last_op.op = "new_conversation")
            => /\ xhr'[g].request.conversation_id = None
               /\ xhr'[g].request.parent_message_id = uuid4(uuids' - 1)
               /\ xhr'[g].request.id = uuid4(uuids')
               /\ xhr'[g].request.parent_message_id # xhr'[g].request.id]_vars

\* the envelope of a call made after a first call and a new_conversation
C9_Witness ==
  /\ calls = 2
  /\ xhr[2].state = "sent"
  /\ xhr[2].request = [conversation_id |-> None, parent_message_id |-> uuid4(3), id |-> uuid4(4)]
  /\ conversation_title_set = FALSE

\* C10: get_history and delete_conversation do not raise.
C10_RestNeverRaises ==
  last_op.op \in {"get_history", "delete_conversation"} => last_op.result # "raised"

\* C11: the loop ends by the timeout only in a call that has decoded no frame.
C11_TimeoutOnlyWithoutFrame ==
  \A g \in Gens : gen[g].exit = "timeout" => gen[g].last_frame = 0

\* C11 (amended): the loop ends by the timeout only on a tick that decodes no frame
\* (the data node is empty or holds null), with the timeout elapsed and no eof node
\* seen; a tick that decodes a frame never ends the loop by the timeout.  A call that
\* decoded a frame before can end so, once its data node holds null.
C11_TimeoutOnlyOnTickWithoutFrame ==
  /\ [][\A g \in Gens :
          (gen[g].exit # "timeout" /\ gen'[g].exit = "timeout")
            => /\ gen[g].pc = "read" /\ gen'[g].pc = "cleanup"
               /\ ~ShowsFrame
               /\ gen[g].timed_out /\ ~gen[g].eof_seen]_vars
  /\ [][\A g \in Gens :
          (gen[g].pc = "read" /\ gen'[g].pc # "read" /\ ShowsFrame) => gen'[g].pc = "chunk"]_vars
  /\ [][\A g \in Gens :
          (gen[g].pc = "chunk" /\ gen'[g].pc = "cleanup")
            => (gen[g].eof_seen /\ gen'[g].exit = "eof")]_vars

\* the loop has ended by the timeout in a call that decoded a frame and then read null
C11_Witness ==
  /\ gen[1].pc = "cleanup" /\ gen[1].exit = "timeout"
  /\ gen[1].last_frame = 1 /\ gen[1].response = <<"H">>
  /\ Shows(6)

\* the data node of the one request holds the encoding of frame k
Published(k) == Events[k].kind = "frame" /\ xhr[1].html = btoa(Payload(k))

\* C12: within one request, however the writes of the driver and the polls of the
\* host interleave: an eof node is seen only once the request has ended, after the
\* last write of the driver, and when the loop ends on the eof node the frame decoded
\* on its last tick is the frame the driver published last.
C12_EofExitReadsFinalFrame ==
  /\ gen[1].eof_seen => xhr[1].state = "done"
  /\ gen[1].exit = "eof"
       => /\ xhr[1].state = "done"
          /\ \A k \in EventIds :
               Published(k) => /\ gen[1].last_frame = k
                               /\ Cleaning(1)
                                    => gen[1].last_event_msg = join(Events[k].parts)

\* the loop has ended on the eof node with the final frame "Hi" decoded on its last
\* tick, the second of two that yielded
C12_Witness ==
  /\ gen[1].pc = "cleanup" /\ gen[1].exit = "eof"
  /\ Published(2) /\ gen[1].last_frame = 2
  /\ gen[1].nchunks = 2 /\ gen[1].response = <<"H", "i">>

\* C13: however the body was cut into deliveries, when the request ends and the eof
\* node is created, the data node holds the encoding of the last event of the
\* response, if it has one.
C13_LastEventAtEof ==
  [][(xhr[1].state = "loading" /\ xhr'[1].state = "done" /\ eof_created'[1]
        /\ LastEvent(xhr[1].resp) # 0)
       => xhr'[1].html = btoa(Payload(LastEvent(xhr[1].resp)))]_vars

\* what the handler takes as newData when the body has reached `received` characters
NewData(received) == substr(SubSeq(Body(xhr[1].resp), 1, received), xhr[1].seenBytes)

\* C14: a readiness-state change in which the handler finds no event, or an event
\* that JSON.parse rejects, leaves the content of the data node and seenBytes as they
\* were, and the request goes on; the data node is empty or holds the encoding of a
\* text that JSON.parse accepted.
C14_UnparseablePublishesNothing ==
  /\ [][(xhr[1].state = "loading" /\ xhr'[1].state = "loading" /\ xhr'[1].len > xhr[1].len
           /\ newEvent(NewData(xhr'[1].len)) = Undefined)
          => /\ xhr'[1].html = xhr[1].html
             /\ xhr'[1].seenBytes = xhr[1].seenBytes]_vars
  /\ [][(xhr[1].state = "loading" /\ xhr'[1].state = "done"
           /\ newEvent(NewData(Len(Body(xhr[1].resp)))) = Undefined)
          => xhr'[1].html = xhr[1].html]_vars
  /\ [](xhr[1].state = "loading"
          => \A received \in Deliveries(Body(xhr[1].resp), CutOffsets), readyState \in {3, 4} :
               newEvent(NewData(received)) = Undefined
                 => /\ onreadystatechange(xhr[1], received, readyState).html = xhr[1].html
                    /\ onreadystatechange(xhr[1], received, readyState).seenBytes
                         = xhr[1].seenBytes
                    /\ onreadystatechange(xhr[1], received, readyState).state
                         \in {"loading", "done"})
  /\ [](\/ xhr[1].html = <<>>
        \/ /\ xhr[1].html # InvalidCharacterError
           /\ \E k \in EventIds : xhr[1].html = btoa(Payload(k)) /\ JSON_parse_ok(Payload(k)))

\* a delivery that ended inside the second event was passed over: the data node still
\* holds the first event and seenBytes stands where the first one was published
C14_Witness ==
  /\ xhr[1].state = "loading" /\ xhr[1].resp = 1
  /\ xhr[1].seenBytes = 10 /\ xhr[1].len = 17
  /\ xhr[1].html = btoa(Payload(1))

\* C15: a tick that decodes a frame yields a chunk only if the chunk is not empty:
\* whenever the generator stops at the yield of a chunk, text was added to what it
\* has yielded.
C15_ChunksNonEmpty ==
  [][\A g \in Gens :
       (gen[g].pc = "read" /\ gen'[g].pc = "chunk")
         => Len(gen'[g].response) > Len(gen[g].response)]_vars

\* C16: while a call polls the page, no other generator being kept, every data node
\* and every eof node of the document was created by the driver of this call: the
\* data node the call decodes and the eof node it reacts to are its own, and no node
\* of an earlier request is left for it to see.
C16_MailboxSingleUse ==
  \A g \in Gens :
    ((InLoop(g) \/ gen[g].pc = "cleanup") /\ \A h \in Gens \ {g} : ~Alive(h))
      => \A i \in 1..Len(dom) : dom[i].id \in {stream_div_id, eof_div_id} => dom[i].req = g

\* the eof nodes of request r in the document
EofNodes(r) == {i \in 1..Len(dom) : dom[i].id = eof_div_id /\ dom[i].req = r}
\* as many after the step
EofNodesAfter(r) == {i \in 1..Len(dom') : dom'[i].id = eof_div_id /\ dom'[i].req = r}

\* C17: the eof node of a request is created on the step that ends the request
\* (readyState 4) and on no other, so at most once; from then on the driver of the
\* request changes nothing, the content of its data node included.
C17_EofOnceAfterLastWrite ==
  /\ [][\A r \in Gens :
          Cardinality(EofNodesAfter(r)) > Cardinality(EofNodes(r))
            => /\ xhr[r].state # "done" /\ xhr'[r].state = "done"
               /\ Cardinality(EofNodesAfter(r)) = 1]_vars
  /\ [][\A r \in Gens :
          xhr[r].state = "done"
            => /\ xhr'[r] = xhr[r]
               /\ Cardinality(EofNodesAfter(r)) <= Cardinality(EofNodes(r))]_vars
  /\ [](\A r \in Gens : EofNodes(r) # {} => (xhr[r].state = "done" /\ eof_created[r]))

\* the eof node of the first request is there, after the last write to its data node,
\* while the call polls
C17_Witness ==
  /\ gen[1].pc = "read" /\ calls = 1
  /\ xhr[1].state = "done" /\ xhr[1].html = btoa(Payload(2))
  /\ Cardinality(EofNodes(1)) = 1
  /\ Attached(1, dom)

\* C18: a tick that ends in the except branch leaves conversation_id and
\* parent_message_id as they were before the tick.
C18_FatalTickKeepsConversation ==
  [][\A g \in Gens :
       (gen[g].pc = "read" /\ gen'[g].pc = "failed")
         => UNCHANGED <<conversation_id, parent_message_id>>]_vars

\* conversation_id and parent_message_id as they were when the call that takes this
\* step was made
AsCalled ==
  IF host.at = "idle" THEN <<conversation_id, parent_message_id>> ELSE host.before

\* C19: a switch_to_conversation(id) that has returned has either set conversation_id
\* to id and parent_message_id to the current_node of that conversation, or left both
\* as they were.
C19_SwitchIsAtomic ==
  [][(Ends("switch_to_conversation") /\ last_op'.result = "returned")
       => \/ \E id \in ConversationIds :
               conversation_id' = id /\ parent_message_id' = current_node(id)
          \/ <<conversation_id, parent_message_id>>' = AsCalled]_vars

\* the step that ends a call through _cleanup_divs and _set_title
SetTitleStep ==
  \E g \in Gens : gen[g].pc \in {"cleanup_eof", "set_title"} /\ gen'[g].pc = "returned"

\* C20: _set_title makes the gen_title request exactly when conversation_id is set and
\* the title flag is not, and no request is made anywhere else; a request that
\* succeeds sets the flag, one that fails leaves it unset, so that the next call
\* that comes to _set_title with a conversation makes the request again; and a flag
\* that is set stays set until new_conversation.
C20_TitleRequests ==
  /\ [][title_requests' # title_requests
          => /\ SetTitleStep
             /\ conversation_id # None /\ ~conversation_title_set
             /\ Len(title_requests') = Len(title_requests) + 1]_vars
  /\ [][(SetTitleStep /\ conversation_id # None /\ ~conversation_title_set)
          => /\ Len(title_requests') = Len(title_requests) + 1
             /\ conversation_title_set' = (title_requests'[Len(title_requests')] = "ok")]_vars
  /\ [][(conversation_title_set /\ ~conversation_title_set')
          => last_op'.op = "new_conversation"]_vars
  /\ [][(~conversation_title_set /\ conversation_title_set')
          => (title_requests' # title_requests
                /\ title_requests'[Len(title_requests')] = "ok")]_vars

\* the request of the first call failed, the second call made it again and it
\* succeeded
C20_Witness ==
  /\ calls = 2 /\ gen[2].pc = "returned"
  /\ title_requests = <<"failed", "ok">>
  /\ conversation_title_set
=============================================================================
